---- MODULE Spec2Model ----
(***************************************************************************)
(* Model of the row triggers cascade_timestamp (src/cascade_timestamp.c,   *)
(* the "full" variant) and cascade_update_at (src/cascade_update_at.c, the *)
(* "simplified" variant).  Each is a shared library with its own static    *)
(* plan cache (FPlans, nFPlans); a behaviour of the model is one backend   *)
(* process with one of the two libraries loaded.                           *)
(*                                                                         *)
(* The host fires a trigger event (FireInsert, FireUpdate, FireDelete),    *)
(* the handler runs as one step (cascade_timestamp or cascade_update_at),  *)
(* and the host takes the result back (HostReturn).                        *)
(***************************************************************************)
EXTENDS Integers, Sequences, FiniteSets, TLC

\* ------------------------------------------------------------------------
\* Bounds of the model
\* ------------------------------------------------------------------------

\* number of trigger firings in one behaviour (the transaction clock)
MaxNow == 2

\* the source key column topic_id holds NULL or 1..MaxKey
MaxKey == 1

\* ------------------------------------------------------------------------
\* The host's data: schema of the triggering relation, row images
\* ------------------------------------------------------------------------

Variants == {"full", "simplified"}

\* attribute names of the triggering relation, in attribute-number order
RelAtts == <<"id", "topic_id", "is_deleted">>

\* type of each attribute
RelTypes == <<"int4", "int4", "bool">>

Natts == Len(RelAtts)

\* a Datum with its null flag; a bool is stored as 0 / 1
Null == [isnull |-> TRUE, val |-> 0]

Val(n) == [isnull |-> FALSE, val |-> n]

InvalidOid == 0

\* the row's own primary key in the model, never a value of topic_id
OwnId == MaxKey + 1

KeyValues == {Null} \cup {Val(k) : k \in 1..MaxKey}

BoolValues == {Null, Val(0), Val(1)}

RowValues == {<<Val(OwnId), k, b>> : k \in KeyValues, b \in BoolValues}

\* the transaction status bits of t_infomask
HEAP_XACT_MASK ==
    {"HEAP_XMIN_COMMITTED", "HEAP_XMAX_INVALID", "HEAP_UPDATED"}

\* a heap tuple: the OID (when the relation has OIDs), the transaction
\* status bits of t_infomask, and the attribute values
Tuple(hasoid, oid, xact, vals) ==
    [hasoid |-> hasoid, oid |-> oid, xact |-> xact, vals |-> vals]

\* tg_newtuple of an insert or delete event
NoTuple == Tuple(FALSE, InvalidOid, {}, <<>>)

HasNull(t) == \E i \in DOMAIN t.vals : t.vals[i].isnull

\* the null bitmap, present only with HEAP_HASNULL
t_bits(t) ==
    IF HasNull(t) THEN [i \in DOMAIN t.vals |-> ~t.vals[i].isnull] ELSE <<>>

t_infomask(t) ==
    (IF HasNull(t) THEN {"HEAP_HASNULL"} ELSE {})
        \cup (IF t.hasoid THEN {"HEAP_HASOID"} ELSE {})
        \cup t.xact

MAXALIGN(n) == ((n + 7) \div 8) * 8

\* header, null bitmap and OID, aligned
t_hoff(t) ==
    MAXALIGN(23 + (IF HasNull(t) THEN 1 ELSE 0) + (IF t.hasoid THEN 4 ELSE 0))

AttLen(type) == IF type = "int4" THEN 4 ELSE 1

RECURSIVE DataFrom(_, _)
\* the stored values of the attributes i.. that are not null, with widths
DataFrom(t, i) ==
    IF i > Len(t.vals) THEN <<>>
    ELSE IF t.vals[i].isnull THEN DataFrom(t, i + 1)
    ELSE <<[len |-> AttLen(RelTypes[i]), val |-> t.vals[i].val]>>
             \o DataFrom(t, i + 1)

RECURSIVE SumLen(_)
SumLen(d) == IF d = <<>> THEN 0 ELSE Head(d).len + SumLen(Tail(d))

t_len(t) == t_hoff(t) + SumLen(DataFrom(t, 1))

HeapTupleHeaderGetNatts(t) == Len(t.vals)

HeapTupleHeaderGetOid(t) == IF t.hasoid THEN t.oid ELSE InvalidOid

\* the bytes from t_bits to the end of the tuple: bitmap, OID, data
BytesFromBits(t) ==
    <<t_bits(t), IF t.hasoid THEN <<t.oid>> ELSE <<>>, DataFrom(t, 1)>>

\* ------------------------------------------------------------------------
\* Collaborator services (SPI)
\* ------------------------------------------------------------------------

SPI_ERROR_NOATTRIBUTE == 0 - 9

\* attribute number of a column name, negative if there is none
SPI_fnumber(name) ==
    IF \E i \in 1..Natts : RelAtts[i] = name
    THEN CHOOSE i \in 1..Natts : RelAtts[i] = name
    ELSE SPI_ERROR_NOATTRIBUTE

Digit(d) ==
    CASE d = 0 -> "0" [] d = 1 -> "1" [] d = 2 -> "2" [] d = 3 -> "3"
      [] d = 4 -> "4" [] d = 5 -> "5" [] d = 6 -> "6" [] d = 7 -> "7"
      [] d = 8 -> "8" [] d = 9 -> "9"

RECURSIVE IntToText(_)
\* decimal rendering (%u, int4out)
IntToText(n) ==
    IF n < 10 THEN Digit(n) ELSE IntToText(n \div 10) \o Digit(n % 10)

\* the type's output function
TypeOutput(type, val) ==
    IF type = "bool" THEN (IF val = 0 THEN "f" ELSE "t") ELSE IntToText(val)

\* text rendering of an attribute, a NULL pointer if the value is null
SPI_getvalue(t, fnumber) ==
    IF t.vals[fnumber].isnull
    THEN [null |-> TRUE, str |-> ""]
    ELSE [null |-> FALSE,
          str |-> TypeOutput(RelTypes[fnumber], t.vals[fnumber].val)]

\* binary value of an attribute and its null flag; (Datum) 0 if null
SPI_getbinval(t, fnumber) ==
    IF t.vals[fnumber].isnull THEN Null ELSE t.vals[fnumber]

SPI_gettypeid(fnumber) == RelTypes[fnumber]

\* ------------------------------------------------------------------------
\* Trigger definitions
\* ------------------------------------------------------------------------

\* the triggers of the model: the same trigger name on two relations;
\* the second relation was created WITH OIDS
Triggers == {1, 2}

RelHasOids(t) == t = 2

TgName(t) == "post_touch"

RelId(t) == 16383 + t

\* the arguments every trigger definition starts with
BaseArgs(v) ==
    IF v = "full" THEN <<"topic", "updated_at", "id", "topic_id">>
    ELSE <<"topic", "updated_at", "topic_id">>

\* the argument lists a trigger is defined with in the model: with and
\* without predicate pairs, with a predicate column the relation lacks, with
\* a predicate column without its value, with too few arguments, and with a
\* key column the triggering relation lacks
ArgLists(v) ==
    { BaseArgs(v),
      BaseArgs(v) \o <<"is_deleted", "f">>,
      BaseArgs(v) \o <<"is_deleted", "false">>,
      BaseArgs(v) \o <<"is_deleted", "f", "bogus", "x">>,
      BaseArgs(v) \o <<"bogus", "x">>,
      BaseArgs(v) \o <<"is_deleted">>,
      SubSeq(BaseArgs(v), 1, Len(BaseArgs(v)) - 1),
      SubSeq(BaseArgs(v), 1, Len(BaseArgs(v)) - 2),
      IF v = "full" THEN <<"topic", "updated_at", "topic_pk", "topic_id">>
      ELSE <<"topic", "updated_at", "nokey">> }

\* args[k] of the C code (0-based)
Arg(args, k) == args[k + 1]

\* ------------------------------------------------------------------------
\* The plan cache
\* ------------------------------------------------------------------------

\* plan->plan == NULL
NoPlan == [kind |-> "NULL"]

EPlan(ident, plan) == [ident |-> ident, plan |-> plan]

\* "%s$%u" of the trigger name and the relation id
Ident(tgname, relid) == tgname \o "$" \o IntToText(relid)

\* the scan with a comparison that never matches
ScanPlans_NeverFound(ident, eplan, nplans) == nplans + 1

\* index of the entry with this ident, or nplans + 1 if there is none
ScanPlans(ident, eplan, nplans) ==
    IF \E i \in 1..nplans : eplan[i].ident = ident
    THEN CHOOSE i \in 1..nplans :
             /\ eplan[i].ident = ident
             /\ \A j \in 1..(i - 1) : eplan[j].ident # ident
    ELSE nplans + 1

\* find_plan clearing the statement of the entry it found
find_plan_ResetsFound(ident, eplan, nplans) ==
    IF nplans > 0 /\ ScanPlans(ident, eplan, nplans) # nplans + 1
    THEN [idx |-> ScanPlans(ident, eplan, nplans),
          eplan |-> [eplan EXCEPT ![ScanPlans(ident, eplan, nplans)].plan = NoPlan],
          nplans |-> nplans]
    ELSE [idx |-> nplans + 1,
          eplan |-> SubSeq(eplan, 1, nplans) \o <<EPlan(ident, NoPlan)>>,
          nplans |-> nplans + 1]

\* find_plan allocating a fresh array for an ident it did not find
find_plan_Forgets(ident, eplan, nplans) ==
    IF nplans > 0 /\ ScanPlans(ident, eplan, nplans) # nplans + 1
    THEN [idx |-> ScanPlans(ident, eplan, nplans), eplan |-> eplan,
          nplans |-> nplans]
    ELSE [idx |-> 1, eplan |-> <<EPlan(ident, NoPlan)>>, nplans |-> 1]

\* find_plan: the entry's index, and the cache with a new empty entry
\* appended when the ident was not found
find_plan(ident, eplan, nplans) ==
    IF nplans > 0
    THEN LET i == ScanPlans(ident, eplan, nplans)
         IN  IF i # nplans + 1
             THEN [idx |-> i, eplan |-> eplan, nplans |-> nplans]
             ELSE [idx |-> i,
                   eplan |-> SubSeq(eplan, 1, nplans) \o <<EPlan(ident, NoPlan)>>,
                   nplans |-> nplans + 1]
    ELSE [idx |-> 1, eplan |-> <<EPlan(ident, NoPlan)>>, nplans |-> 1]

\* ------------------------------------------------------------------------
\* The stages of the handler
\* ------------------------------------------------------------------------

\* the argument count below which the handler refuses to run
MinArgs(v) == 3

\* args index of the first predicate column
FirstPredicateArg(v) == IF v = "full" THEN 4 ELSE 3

\* args index of the column whose value is bound to the parameter
KeyValueArg(v) == 2

\* the WHERE column taken from the 3rd argument in both variants
WhereColumn_ThirdArg(v, args) == Arg(args, 2)

\* the column compared with the parameter in the WHERE clause
WhereColumn(v, args) == IF v = "full" THEN Arg(args, 2) ELSE "id"

\* the new image taken as the row of an update
RetTuple_NewOnUpdate(td) ==
    IF td.event = "update" THEN td.tg_newtuple ELSE td.tg_trigtuple

\* the tuple the guard, the key value and the return value are taken from
RetTuple(td) == td.tg_trigtuple

\* the checks on the calling context and the argument count
ValidateCall(v, td) ==
    IF td.context # "ok" THEN "ConfigurationError"
    ELSE IF Len(td.args) < MinArgs(v) THEN "ConfigurationError"
    ELSE "none"

\* the copy taking the visibility bits of the old header along with the OID
CopyOid_WithInfomask(td) ==
    IF /\ td.event = "update"
       /\ td.relhasoids
       /\ HeapTupleHeaderGetOid(td.tg_newtuple) = InvalidOid
    THEN [td.tg_newtuple EXCEPT !.oid = HeapTupleHeaderGetOid(td.tg_trigtuple),
                                !.xact = td.tg_trigtuple.xact]
    ELSE td.tg_newtuple

\* the new tuple after "copy the OID just in case it changed somehow"
CopyOid(td) ==
    IF /\ td.event = "update"
       /\ td.relhasoids
       /\ HeapTupleHeaderGetOid(td.tg_newtuple) = InvalidOid
    THEN [td.tg_newtuple EXCEPT !.oid = HeapTupleHeaderGetOid(td.tg_trigtuple)]
    ELSE td.tg_newtuple

\* "if the tuple payload is the same ..."
SamePayload(new, old) ==
    /\ t_len(new) = t_len(old)
    /\ t_hoff(new) = t_hoff(old)
    /\ HeapTupleHeaderGetNatts(new) = HeapTupleHeaderGetNatts(old)
    /\ t_infomask(new) \ HEAP_XACT_MASK = t_infomask(old) \ HEAP_XACT_MASK
    /\ BytesFromBits(new) = BytesFromBits(old)

\* the classifier without the payload comparison
Classify_AlwaysChanged(td) == TRUE

\* the flag update after the row change classifier
Classify(td) ==
    IF td.event = "update"
    THEN ~SamePayload(CopyOid(td), td.tg_trigtuple)
    ELSE TRUE

\* a comparison that never tells a difference
Mismatch_Never(newval, args, i, oob) == FALSE

\* strcmp(newval, args[i+1]) != 0; args[i+1] read past the end of the
\* argument array is whatever the memory holds
Mismatch(newval, args, i, oob) ==
    IF i + 1 < Len(args) THEN newval.str # Arg(args, i + 1) ELSE oob = "differs"

\* a missing attribute taken as a failed guard instead of an error
OnMissingAttribute_Skip(update, seen) ==
    [update |-> FALSE, error |-> "none", lookups |-> seen]

\* "fnumber < 0": elog(ERROR, ... has no attribute ...)
OnMissingAttribute(update, seen) ==
    [update |-> update, error |-> "AttributeError", lookups |-> seen]

RECURSIVE PredicateLoop(_, _, _, _, _, _)
\* the loop over the predicate pairs from args index i on
PredicateLoop(v, td, i, update, lookups, oob) ==
    IF ~(i < Len(td.args))
    THEN [update |-> update, error |-> "none", lookups |-> lookups]
    ELSE LET fnumber == SPI_fnumber(Arg(td.args, i))
             seen == Append(lookups, Arg(td.args, i))
         IN  IF fnumber < 0
             THEN OnMissingAttribute(update, seen)
             ELSE LET newval == SPI_getvalue(RetTuple(td), fnumber)
                  IN  IF ~newval.null /\ ~(i + 1 < Len(td.args)) /\ oob = "crash"
                      THEN [update |-> update, error |-> "crash", lookups |-> seen]
                      ELSE IF ~newval.null /\ Mismatch(newval, td.args, i, oob)
                      THEN [update |-> FALSE, error |-> "none", lookups |-> seen]
                      ELSE PredicateLoop(v, td, i + 2, update, seen, oob)

PredicateGuard(v, td, oob) ==
    PredicateLoop(v, td, FirstPredicateArg(v), Classify(td), <<>>, oob)

\* the statement text built by snprintf, as its three substituted names
Sql(v, args) ==
    [table |-> Arg(args, 0), setcol |-> Arg(args, 1), keycol |-> WhereColumn(v, args)]

\* the destination table of the model and its columns
DestTable == "topic"

DestColumns == {"id", "topic_pk", "updated_at"}

\* SPI_prepare parses the statement: it raises an error itself when the text
\* names a table or column that does not exist
Parses(sql) ==
    /\ sql.table = DestTable
    /\ sql.setcol \in DestColumns
    /\ sql.keycol \in DestColumns

\* a prepared statement: saved is FALSE until SPI_saveplan has copied it
Plan(sql, argtype, saved) ==
    [kind |-> "plan", sql |-> sql, argtype |-> argtype, saved |-> saved]

\* the outcome of one run of the handler
Outcome(error, calls, lookups, executed, ret, newtuple, eplan, nplans, writes) ==
    [error |-> error, calls |-> calls, lookups |-> lookups,
     executed |-> executed, ret |-> ret, newtuple |-> newtuple,
     eplan |-> eplan, nplans |-> nplans, writes |-> writes]

\* the normal end of the handler returning without SPI_finish
Execute_NoFinish(v, td, fail, lookups, fp, plan, kval, calls, writes) ==
    LET eplan == [fp.eplan EXCEPT ![fp.idx].plan = plan]
    IN  IF fail = "SPI_execp"
        THEN Outcome("ExecutionError", calls \o <<"SPI_execp", "elog">>, lookups,
                     <<>>, NoTuple, CopyOid(td), eplan, fp.nplans, writes)
        ELSE Outcome("none", calls \o <<"SPI_execp">>, lookups,
                     <<[sql |-> plan.sql, param |-> kval.val]>>, RetTuple(td),
                     CopyOid(td), eplan, fp.nplans, writes)

\* SPI_execp(plan->plan, &kval, NULL, 1) and the normal end of the handler
Execute(v, td, fail, lookups, fp, plan, kval, calls, writes) ==
    LET eplan == [fp.eplan EXCEPT ![fp.idx].plan = plan]
    IN  IF fail = "SPI_execp"
        THEN Outcome("ExecutionError", calls \o <<"SPI_execp", "elog">>, lookups,
                     <<>>, NoTuple, CopyOid(td), eplan, fp.nplans, writes)
        ELSE Outcome("none", calls \o <<"SPI_execp", "SPI_finish">>, lookups,
                     <<[sql |-> plan.sql, param |-> kval.val]>>, RetTuple(td),
                     CopyOid(td), eplan, fp.nplans, writes)

\* the same with the result of SPI_saveplan tested before it is stored, so
\* that a failed SPI_saveplan leaves the prepared statement in the entry
PrepareAndExecute_KeepsPrepared(v, td, fail, lookups, fp, fnumber, kval, calls) ==
    LET prepared == Plan(Sql(v, td.args), SPI_gettypeid(fnumber), FALSE)
        saved == Plan(Sql(v, td.args), SPI_gettypeid(fnumber), TRUE)
    IN  IF kval.isnull
        THEN Outcome("none", calls \o <<"SPI_finish">>, lookups, <<>>,
                     RetTuple(td), CopyOid(td), fp.eplan, fp.nplans, <<>>)
        ELSE IF ~Parses(Sql(v, td.args))
        THEN Outcome("UndefinedColumn", calls \o <<"SPI_prepare">>, lookups,
                     <<>>, NoTuple, CopyOid(td), fp.eplan, fp.nplans, <<>>)
        ELSE IF fail = "SPI_prepare"
        THEN Outcome("PlanningError", calls \o <<"SPI_prepare", "elog">>, lookups,
                     <<>>, NoTuple, CopyOid(td), fp.eplan, fp.nplans, <<NoPlan>>)
        ELSE IF fail = "SPI_saveplan"
        THEN Outcome("PlanningError",
                     calls \o <<"SPI_prepare", "SPI_saveplan", "elog">>, lookups,
                     <<>>, NoTuple, CopyOid(td),
                     [fp.eplan EXCEPT ![fp.idx].plan = prepared], fp.nplans,
                     <<prepared>>)
        ELSE Execute(v, td, fail, lookups, fp, saved, kval,
                     calls \o <<"SPI_prepare", "SPI_saveplan">>,
                     <<prepared, saved>>)

\* "if (plan->plan == NULL)": the null key check, SPI_prepare, SPI_saveplan
PrepareAndExecute(v, td, fail, lookups, fp, fnumber, kval, calls) ==
    LET prepared == Plan(Sql(v, td.args), SPI_gettypeid(fnumber), FALSE)
        saved == Plan(Sql(v, td.args), SPI_gettypeid(fnumber), TRUE)
    IN  IF kval.isnull
        THEN Outcome("none", calls \o <<"SPI_finish">>, lookups, <<>>,
                     RetTuple(td), CopyOid(td), fp.eplan, fp.nplans, <<>>)
        ELSE IF ~Parses(Sql(v, td.args))
        THEN Outcome("UndefinedColumn", calls \o <<"SPI_prepare">>, lookups,
                     <<>>, NoTuple, CopyOid(td), fp.eplan, fp.nplans, <<>>)
        ELSE IF fail = "SPI_prepare"
        THEN Outcome("PlanningError", calls \o <<"SPI_prepare", "elog">>, lookups,
                     <<>>, NoTuple, CopyOid(td), fp.eplan, fp.nplans, <<NoPlan>>)
        ELSE IF fail = "SPI_saveplan"
        THEN Outcome("PlanningError",
                     calls \o <<"SPI_prepare", "SPI_saveplan", "elog">>, lookups,
                     <<>>, NoTuple, CopyOid(td), fp.eplan, fp.nplans,
                     <<prepared, NoPlan>>)
        ELSE Execute(v, td, fail, lookups, fp, saved, kval,
                     calls \o <<"SPI_prepare", "SPI_saveplan">>,
                     <<prepared, saved>>)

\* from SPI_connect to the end of the handler
Cascade(v, td, fail, lookups, eplan, nplans) ==
    IF fail = "SPI_connect"
    THEN Outcome("ConnectionError", <<"SPI_connect", "elog">>, lookups, <<>>,
                 NoTuple, CopyOid(td), eplan, nplans, <<>>)
    ELSE LET fp == find_plan(Ident(td.tgname, td.relid), eplan, nplans)
             fnumber == SPI_fnumber(Arg(td.args, KeyValueArg(v)))
             calls == <<"SPI_connect", "find_plan">>
         IN  IF fnumber < 0
             THEN Outcome("AttributeError", calls \o <<"elog">>, lookups, <<>>,
                          NoTuple, CopyOid(td), fp.eplan, fp.nplans, <<>>)
             ELSE LET kval == SPI_getbinval(RetTuple(td), fnumber)
                      plan == fp.eplan[fp.idx].plan
                  IN  IF plan.kind = "NULL"
                      THEN PrepareAndExecute(v, td, fail, lookups, fp, fnumber,
                                             kval, calls)
                      ELSE Execute(v, td, fail, lookups, fp, plan, kval, calls, <<>>)

\* the whole handler: env.fail names the SPI primitive that fails if it is
\* called, env.oob what a read past the argument array yields
Handler(v, td, env, eplan, nplans) ==
    IF ValidateCall(v, td) # "none"
    THEN Outcome(ValidateCall(v, td), <<"elog">>, <<>>, <<>>, NoTuple,
                 td.tg_newtuple, eplan, nplans, <<>>)
    ELSE LET g == PredicateGuard(v, td, env.oob)
         IN  IF g.error # "none"
             THEN Outcome(g.error, IF g.error = "crash" THEN <<>> ELSE <<"elog">>,
                          g.lookups, <<>>, NoTuple,
                          CopyOid(td), eplan, nplans, <<>>)
             ELSE IF ~g.update
             THEN Outcome("none", <<"SPI_finish">>, g.lookups, <<>>,
                          RetTuple(td), CopyOid(td), eplan, nplans, <<>>)
             ELSE Cascade(v, td, env.fail, g.lookups, eplan, nplans)

\* the rows an executed UPDATE stamps: those whose key column equals the
\* parameter, at most tcount = 1 of them
ExecTargets(ex, rows) ==
    LET match == {r \in DOMAIN rows : rows[r][ex.sql.keycol] = ex.param}
    IN  IF match = {} THEN {{}} ELSE {{r} : r \in match}

\* ------------------------------------------------------------------------
\* State
\* ------------------------------------------------------------------------

VARIABLES
    variant,    \* which library this backend has loaded
    tgargs,     \* the argument list each trigger was defined with
    FPlans,     \* static EPlan *FPlans
    nFPlans,    \* static int nFPlans
    topic,      \* the destination table
    now,        \* the clock NOW() reads; one tick per trigger firing
    pc,         \* "idle", "fired", "returned" or "crashed"
    td,         \* the TriggerData of the call in progress
    res         \* the outcome of the call

vars == <<variant, tgargs, FPlans, nFPlans, topic, now, pc, td, res>>

NoCall == [context |-> "none"]

NoResult == [error |-> "none"]

\* what a failing collaborator can be, and what a read past the argument
\* array can yield
Fails == {"none", "SPI_connect", "SPI_prepare", "SPI_saveplan", "SPI_execp"}

Oobs == {"equal", "differs", "crash"}

ValidOids == {16400}

OldXact == {"HEAP_XMIN_COMMITTED"}

NewXact == {"HEAP_UPDATED", "HEAP_XMAX_INVALID"}

\* the rows of the relation created WITH OIDS in the model
OidRowValues == {r \in RowValues : r[3] = Val(0)}

\* the (old, new) row images of update events on trigger t's relation
UpdatePairs(t) ==
    IF RelHasOids(t)
    THEN {<<Tuple(TRUE, oid, OldXact, x[1]), Tuple(TRUE, noid, NewXact, x[2])>> :
             oid \in ValidOids, noid \in ValidOids \cup {InvalidOid},
             x \in OidRowValues \X OidRowValues}
    ELSE {<<Tuple(FALSE, InvalidOid, OldXact, x[1]),
            Tuple(FALSE, InvalidOid, NewXact, x[2])>> :
             x \in RowValues \X RowValues}

\* the row image of insert and delete events on trigger t's relation
SingleTuples(t, xact) ==
    IF RelHasOids(t)
    THEN {Tuple(TRUE, oid, xact, r) : oid \in ValidOids, r \in OidRowValues}
    ELSE {Tuple(FALSE, InvalidOid, xact, r) : r \in RowValues}

TriggerData(context, event, t, trigtuple, newtuple) ==
    [context |-> context, event |-> event, tgname |-> TgName(t),
     relid |-> RelId(t), args |-> tgargs[t], relhasoids |-> RelHasOids(t),
     tg_trigtuple |-> trigtuple, tg_newtuple |-> newtuple]

Init ==
    /\ variant \in Variants
    /\ tgargs \in {[t \in Triggers |-> IF t = 1 THEN a ELSE BaseArgs(variant)] :
                      a \in ArgLists(variant)}
    /\ FPlans = <<>>
    /\ nFPlans = 0
    /\ topic = [r \in 1..(MaxKey + 1) |->
                    [id |-> r, topic_pk |-> r, updated_at |-> 0]]
    /\ now = 0
    /\ pc = "idle"
    /\ td = NoCall
    /\ res = NoResult

\* ------------------------------------------------------------------------
\* The host fires a trigger
\* ------------------------------------------------------------------------

Fire(data) ==
    /\ pc = "idle"
    /\ now < MaxNow
    /\ now' = now + 1
    /\ pc' = "fired"
    /\ td' = data
    /\ res' = NoResult
    /\ UNCHANGED <<variant, tgargs, FPlans, nFPlans, topic>>

FireInsert ==
    \E t \in Triggers : \E new \in SingleTuples(t, NewXact) :
        Fire(TriggerData("ok", "insert", t, new, NoTuple))

FireDelete ==
    \E t \in Triggers : \E old \in SingleTuples(t, OldXact) :
        Fire(TriggerData("ok", "delete", t, old, NoTuple))

FireUpdate ==
    \E t \in Triggers : \E p \in UpdatePairs(t) :
        Fire(TriggerData("ok", "update", t, p[1], p[2]))

\* the function called outside an AFTER ... FOR EACH ROW trigger
FireMisuse ==
    \E c \in {"not_trigger", "not_after", "not_row"} :
        Fire(TriggerData(c, "insert", 1,
                         Tuple(FALSE, InvalidOid, NewXact, <<Val(OwnId), Val(1), Val(0)>>),
                         NoTuple))

\* ------------------------------------------------------------------------
\* The handler runs
\* ------------------------------------------------------------------------

\* the destination table after the executed statements
Stamp(rows, hit, col, t) ==
    [r \in DOMAIN rows |-> IF r \in hit THEN [rows[r] EXCEPT ![col] = t] ELSE rows[r]]

Run(v) ==
    /\ pc = "fired"
    /\ variant = v
    /\ \E fail \in Fails, oob \in Oobs :
          \E out \in {Handler(v, td, [fail |-> fail, oob |-> oob], FPlans, nFPlans)} :
              /\ res' = out
              /\ FPlans' = out.eplan
              /\ nFPlans' = out.nplans
              /\ pc' = IF out.error = "crash" THEN "crashed" ELSE "returned"
              /\ IF out.executed = <<>>
                 THEN topic' = topic
                 ELSE \E hit \in ExecTargets(out.executed[1], topic) :
                         topic' = Stamp(topic, hit, out.executed[1].sql.setcol, now)
    /\ UNCHANGED <<variant, tgargs, now, td>>

cascade_timestamp == Run("full")

cascade_update_at == Run("simplified")

\* the host takes the result; the next event can fire
HostReturn ==
    /\ pc = "returned"
    /\ pc' = "idle"
    /\ td' = NoCall
    /\ res' = NoResult
    /\ UNCHANGED <<variant, tgargs, FPlans, nFPlans, topic, now>>

Next ==
    \/ FireInsert
    \/ FireDelete
    \/ FireUpdate
    \/ FireMisuse
    \/ cascade_timestamp
    \/ cascade_update_at
    \/ HostReturn

Spec == Init /\ [][Next]_vars

\* ------------------------------------------------------------------------
\* Vocabulary of the properties
\* ------------------------------------------------------------------------

\* the handler has run on td and res is its outcome
Ran == pc \in {"returned", "crashed"}

CalledIn(r, name) == \E i \in DOMAIN r.calls : r.calls[i] = name

Called(name) == CalledIn(res, name)

\* the documented argument roles: the number of fixed arguments and the
\* position of the source key column
DocFixedArgs(v) == IF v = "full" THEN 4 ELSE 3

DocSourceKey(v, args) == IF v = "full" THEN Arg(args, 3) ELSE Arg(args, 2)

\* the args indexes of the predicate columns
PairIndexes(v, args) ==
    {i \in DocFixedArgs(v)..(Len(args) - 1) : (i - DocFixedArgs(v)) % 2 = 0}

\* called as a row trigger, with the fixed arguments, the predicate
\* arguments in pairs
WellFormed ==
    /\ td.context = "ok"
    /\ Len(td.args) >= DocFixedArgs(variant)
    /\ (Len(td.args) - DocFixedArgs(variant)) % 2 = 0

KnownColumn(name) == \E i \in 1..Natts : RelAtts[i] = name

AllPredicateColumnsKnown ==
    \A i \in PairIndexes(variant, td.args) : KnownColumn(Arg(td.args, i))

\* the value of a column in a row image
ColumnValue(t, name) == t.vals[CHOOSE i \in 1..Natts : RelAtts[i] = name]

\* the row images the host handed in
RowImages ==
    IF td.event = "update" THEN {td.tg_trigtuple, td.tg_newtuple}
    ELSE {td.tg_trigtuple}

\* the guard as documented: every pair's column renders exactly as its value
StrictGuard(t) ==
    \A i \in PairIndexes(variant, td.args) :
        /\ KnownColumn(Arg(td.args, i))
        /\ ~ColumnValue(t, Arg(td.args, i)).isnull
        /\ TypeOutput(RelTypes[CHOOSE k \in 1..Natts : RelAtts[k] = Arg(td.args, i)],
                      ColumnValue(t, Arg(td.args, i)).val) = Arg(td.args, i + 1)

\* an update that writes back the row it found: same values, and the same
\* OID or none in the new image
Rewrite ==
    /\ td.event = "update"
    /\ td.tg_newtuple.vals = td.tg_trigtuple.vals
    /\ td.tg_newtuple.oid \in {td.tg_trigtuple.oid, InvalidOid}

\* errors of the collaborators, which no property of the handler excludes
HostErrors == {"ConnectionError", "PlanningError", "ExecutionError"}

\* the destination rows stamped by the call in progress
Stamped == {r \in DOMAIN topic : topic[r].updated_at = now}

\* the cache entry of the trigger that fired, if it is filled
Filled(eplan, nplans) ==
    \E i \in 1..nplans :
        /\ eplan[i].ident = Ident(td.tgname, td.relid)
        /\ eplan[i].plan.kind = "plan"

\* ------------------------------------------------------------------------
\* C1  A row whose source key is null cascades nothing and raises no error,
\*     whatever the state of the plan cache.
\* ------------------------------------------------------------------------

NullSourceKey ==
    /\ KnownColumn(DocSourceKey(variant, td.args))
    /\ ColumnValue(td.tg_trigtuple, DocSourceKey(variant, td.args)).isnull
    /\ \A t \in RowImages : ColumnValue(t, DocSourceKey(variant, td.args)).isnull

\* C1: after a call on a row whose source key column is null, no statement
\* has been executed and no error raised (a failure to connect aside)
C1_NullKeyNoCascade ==
    (Ran /\ WellFormed /\ AllPredicateColumnsKnown /\ NullSourceKey)
        => /\ res.executed = <<>>
           /\ Stamped = {}
           /\ res.error \in {"none", "ConnectionError"}

\* ------------------------------------------------------------------------
\* C2  The full variant binds the parameter to the row's value in the 4th
\*     argument's column and compares it with the 3rd argument's column.
\* ------------------------------------------------------------------------

\* the values of the source key column in the row images handed in
SourceKeyValues ==
    {ColumnValue(t, DocSourceKey(variant, td.args)).val :
        t \in {u \in RowImages :
                  ~ColumnValue(u, DocSourceKey(variant, td.args)).isnull}}

\* C2: a statement executed by cascade_timestamp for an update compares the
\* 3rd argument's column with the row's value in the 4th argument's column,
\* and the rows stamped are those whose key is that value
C2_FullWhereBindsSourceKey ==
    (/\ Ran /\ variant = "full" /\ WellFormed /\ td.event = "update"
     /\ KnownColumn(DocSourceKey(variant, td.args))
     /\ res.executed # <<>>)
        => /\ res.executed[1].sql.keycol = Arg(td.args, 2)
           /\ res.executed[1].param \in SourceKeyValues
           /\ \A r \in Stamped : topic[r].id \in SourceKeyValues

\* ------------------------------------------------------------------------
\* C3  An update that leaves the row as it was never cascades.
\* ------------------------------------------------------------------------

\* C3: after a call for an update whose new image equals the old one, no
\* statement has been executed and no destination row stamped
C3_RewriteNeverCascades ==
    (Ran /\ td.context = "ok" /\ Rewrite)
        => /\ res.executed = <<>>
           /\ ~Called("SPI_execp")
           /\ Stamped = {}

\* a rewrite of a row whose guard passes, on a filled cache entry
C3_Witness ==
    /\ pc = "returned" /\ WellFormed /\ Rewrite
    /\ PairIndexes(variant, td.args) # {}
    /\ StrictGuard(td.tg_trigtuple)
    /\ Filled(FPlans, nFPlans)
    /\ res.error = "none"

\* ------------------------------------------------------------------------
\* C4  An insert or delete with a source key and a passing guard cascades
\*     exactly once.
\* ------------------------------------------------------------------------

\* C4: after a call for an insert or delete whose row has a source key and
\* passes the guard, exactly one statement has been executed, unless a
\* collaborator failed
C4_InsertDeleteCascadesOnce ==
    (/\ Ran /\ WellFormed /\ td.event \in {"insert", "delete"}
     /\ KnownColumn(DocSourceKey(variant, td.args))
     /\ ~ColumnValue(td.tg_trigtuple, DocSourceKey(variant, td.args)).isnull
     /\ StrictGuard(td.tg_trigtuple)
     /\ res.error \notin HostErrors)
        => Len(res.executed) = 1

\* ------------------------------------------------------------------------
\* C5  A filled cache entry is reused: no second preparation.
\* ------------------------------------------------------------------------

\* the statement of the filled entry of the trigger that fired
CachedSql ==
    FPlans[CHOOSE i \in 1..nFPlans :
               FPlans[i].ident = Ident(td.tgname, td.relid)].plan.sql

\* C5: a call that finds the entry of its trigger filled does not prepare a
\* statement, executes the entry's statement if it executes one, and leaves
\* the entry filled
C5_FilledEntryIsReused ==
    [][(pc = "fired" /\ Filled(FPlans, nFPlans))
          => /\ ~CalledIn(res', "SPI_prepare")
             /\ ~CalledIn(res', "SPI_saveplan")
             /\ \A i \in DOMAIN res'.executed : res'.executed[i].sql = CachedSql
             /\ Filled(FPlans', nFPlans')]_vars

\* a call that executed the statement a previous call prepared
C5_Witness ==
    /\ pc = "returned"
    /\ res.executed # <<>>
    /\ Called("find_plan") /\ Called("SPI_execp")
    /\ ~Called("SPI_prepare")

\* ------------------------------------------------------------------------
\* C6  The simplified variant compares the literal column id with the row's
\*     value in the 3rd argument's column.
\* ------------------------------------------------------------------------

\* C6: a statement executed by cascade_update_at for an update is
\* UPDATE args[0] SET args[1] = NOW() WHERE id = p with p the triggering
\* row's value in args[2], and stamps the rows with that id; and an update
\* that changes the row executes one when the triggering row passes the
\* guard and has a source key and no collaborator fails
C6_SimplifiedStatement ==
    (Ran /\ variant = "simplified" /\ WellFormed /\ td.event = "update")
        => /\ res.executed # <<>> =>
                /\ res.executed =
                       <<[sql |-> [table |-> Arg(td.args, 0),
                                   setcol |-> Arg(td.args, 1),
                                   keycol |-> "id"],
                          param |-> ColumnValue(td.tg_trigtuple,
                                                Arg(td.args, 2)).val]>>
                /\ Stamped = {r \in DOMAIN topic :
                                 topic[r].id = res.executed[1].param}
           /\ (/\ ~Rewrite
               /\ StrictGuard(td.tg_trigtuple)
               /\ KnownColumn(Arg(td.args, 2))
               /\ ~ColumnValue(td.tg_trigtuple, Arg(td.args, 2)).isnull
               /\ res.error \notin HostErrors)
                  => res.executed # <<>>

\* an update of a row with topic_id = 1 and another id, guarded, that
\* stamped topic 1
C6_Witness ==
    /\ pc = "returned" /\ variant = "simplified" /\ td.event = "update"
    /\ ~Rewrite
    /\ PairIndexes(variant, td.args) # {}
    /\ ColumnValue(td.tg_trigtuple, "topic_id") = Val(1)
    /\ ColumnValue(td.tg_trigtuple, "id") # Val(1)
    /\ res.executed # <<>>
    /\ Stamped = {1}

\* ------------------------------------------------------------------------
\* C7  The guard passes exactly when every pair's column renders as its
\*     value.
\* ------------------------------------------------------------------------

\* the changed-row events on which all row images get the same verdict
\* from the documented guard
GuardDecided ==
    /\ ~Rewrite
    /\ \A t, u \in RowImages : StrictGuard(t) <=> StrictGuard(u)

\* C7: the handler goes on to the cascade exactly when the documented guard
\* passes, rows with a null predicate column included
C7_GuardIsTextEquality ==
    (Ran /\ WellFormed /\ AllPredicateColumnsKnown /\ GuardDecided)
        => (Called("SPI_connect") <=> StrictGuard(td.tg_trigtuple))

\* ------------------------------------------------------------------------
\* C8  For an update the guard is evaluated on the new row image.
\* ------------------------------------------------------------------------

NoNullPredicateColumn ==
    \A t \in RowImages : \A i \in PairIndexes(variant, td.args) :
        ~ColumnValue(t, Arg(td.args, i)).isnull

\* C8: after a call for an update that changes the row, the handler has
\* gone on to the cascade exactly when the new row image passes the guard
C8_GuardReadsNewRow ==
    (/\ Ran /\ WellFormed /\ AllPredicateColumnsKnown
     /\ td.event = "update" /\ ~Rewrite /\ NoNullPredicateColumn)
        => (Called("SPI_connect") <=> StrictGuard(td.tg_newtuple))

\* ------------------------------------------------------------------------
\* C9  A predicate column the relation lacks is a fatal AttributeError.
\* ------------------------------------------------------------------------

NamesUnknownColumn ==
    /\ td.context = "ok"
    /\ Len(td.args) >= DocFixedArgs(variant)
    /\ ~AllPredicateColumnsKnown

\* C9 as stated: every call whose pairs name an unknown column ends in an
\* AttributeError, with no statement executed and no plan prepared
C9_UnknownColumnAlwaysFails ==
    (Ran /\ NamesUnknownColumn)
        => /\ res.error = "AttributeError"
           /\ res.executed = <<>>
           /\ ~Called("SPI_prepare")

\* the first pair whose column the relation lacks
FirstUnknown ==
    CHOOSE i \in PairIndexes(variant, td.args) :
        /\ ~KnownColumn(Arg(td.args, i))
        /\ \A j \in PairIndexes(variant, td.args) :
               j < i => KnownColumn(Arg(td.args, j))

\* a pair before the unknown column whose column is not null in the
\* triggering row and renders differently from its value
EarlierMismatch ==
    \E j \in PairIndexes(variant, td.args) :
        /\ j < FirstUnknown
        /\ ~ColumnValue(td.tg_trigtuple, Arg(td.args, j)).isnull
        /\ SPI_getvalue(td.tg_trigtuple, SPI_fnumber(Arg(td.args, j))).str
               # Arg(td.args, j + 1)

\* C9 amended: such a call executes no statement, looks up and prepares no
\* plan, and ends in an AttributeError unless an earlier pair mismatched, in
\* which case it is skipped without error
C9_UnknownColumnFailsWhenReached ==
    (Ran /\ NamesUnknownColumn)
        => /\ res.executed = <<>>
           /\ Stamped = {}
           /\ ~Called("SPI_prepare")
           /\ ~Called("find_plan")
           /\ FPlans = res.eplan
           /\ IF EarlierMismatch
              THEN res.error = "none" /\ res.calls = <<"SPI_finish">>
              ELSE res.error = "AttributeError"

\* an unknown predicate column was looked up and the call failed
C9_Witness ==
    /\ pc = "returned" /\ NamesUnknownColumn
    /\ res.error = "AttributeError"
    /\ Len(res.lookups) = 2
    /\ res.lookups[2] = "bogus"

\* ------------------------------------------------------------------------
\* C10 Each variant refuses fewer arguments than its fixed ones.
\* ------------------------------------------------------------------------

\* C10: a call with fewer than 4 (full) or 3 (simplified) arguments ends in
\* a ConfigurationError before anything else is done
C10_MinimumArgs ==
    (Ran /\ td.context = "ok" /\ Len(td.args) < DocFixedArgs(variant))
        => /\ res.error = "ConfigurationError"
           /\ res.calls = <<"elog">>

\* ------------------------------------------------------------------------
\* C11 Predicate arguments that do not come in pairs are refused.
\* ------------------------------------------------------------------------

\* the fixed arguments are there and one predicate column is left without
\* its value
OddPredicateArgs ==
    /\ td.context = "ok"
    /\ Len(td.args) >= DocFixedArgs(variant)
    /\ (Len(td.args) - DocFixedArgs(variant)) % 2 = 1

\* C11: a call whose predicate arguments are odd in number ends in a
\* ConfigurationError before any predicate column is looked up, so that no
\* pair is evaluated with its value missing
C11_OddPredicateArgsRefused ==
    (Ran /\ OddPredicateArgs)
        => /\ res.error = "ConfigurationError"
           /\ res.lookups = <<>>
           /\ res.executed = <<>>

\* ------------------------------------------------------------------------
\* C12 Every call that ends without a fatal error returns the triggering
\*     row the host handed in.
\* ------------------------------------------------------------------------

\* the return paths of the handler
ReturnPaths == {"guard skip", "null key skip", "executed"}

\* the path a call that returned has taken: skipped before connecting (by
\* the classifier or the guard), skipped on a null key, or executed
ReturnPath ==
    IF ~Called("SPI_connect") THEN "guard skip"
    ELSE IF ~Called("SPI_execp") THEN "null key skip"
    ELSE "executed"

\* C12: whenever the handler ends without a fatal error, on whichever
\* return path, the tuple it returns is the triggering row tg_trigtuple of
\* the call, as the host handed it in
C12_ReturnsTriggeringRow ==
    (Ran /\ res.error = "none")
        => /\ pc = "returned"
           /\ ReturnPath \in ReturnPaths
           /\ res.ret = td.tg_trigtuple

\* an update whose images differ has executed its cascade and returned
C12_Witness ==
    /\ pc = "returned" /\ res.error = "none"
    /\ td.event = "update"
    /\ td.tg_newtuple.vals # td.tg_trigtuple.vals
    /\ ReturnPath = "executed"
    /\ res.ret = td.tg_trigtuple

\* the other return paths
C12_UnchangedSkip ==
    pc = "returned" /\ res.error = "none" /\ Rewrite /\ ReturnPath = "guard skip"

C12_GuardSkip ==
    /\ pc = "returned" /\ res.error = "none" /\ ~Rewrite
    /\ ReturnPath = "guard skip" /\ res.lookups # <<>>

C12_NullKeySkip ==
    pc = "returned" /\ res.error = "none" /\ ReturnPath = "null key skip"

\* ------------------------------------------------------------------------
\* C13 No call modifies a row image it received.
\* ------------------------------------------------------------------------

\* C13 as stated: after every call, of every operation kind and on every
\* path, the new row image is field for field what the host handed in, its OID
\* included, and so is the tuple the call returned
C13_RowImagesUntouched ==
    Ran => /\ res.newtuple = td.tg_newtuple
           /\ res.error = "none" => res.ret = td.tg_trigtuple

\* an update of a relation with OIDs whose new image came without its OID,
\* in a call that got past the checks of context and argument count
OidCopied ==
    /\ res.error # "ConfigurationError"
    /\ td.event = "update"
    /\ td.relhasoids
    /\ td.tg_newtuple.oid = InvalidOid

\* C13 amended: no call modifies the old image or the tuple it returns,
\* and the new image is left as it was except for its OID, which is set
\* to the old image's OID in an update of a relation with OIDs whose new
\* image has none; every other field of the new image is unchanged
C13_OnlyMissingOidIsCopied ==
    Ran => /\ res.error = "none" => res.ret = td.tg_trigtuple
           /\ res.newtuple.hasoid = td.tg_newtuple.hasoid
           /\ res.newtuple.xact = td.tg_newtuple.xact
           /\ res.newtuple.vals = td.tg_newtuple.vals
           /\ res.newtuple.oid =
                  IF OidCopied THEN td.tg_trigtuple.oid ELSE td.tg_newtuple.oid

\* the OID has been copied into a new image that had none
C13_Witness ==
    /\ Ran /\ OidCopied
    /\ td.tg_trigtuple.oid # InvalidOid
    /\ res.newtuple.oid = td.tg_trigtuple.oid
    /\ res.newtuple # td.tg_newtuple

\* ------------------------------------------------------------------------
\* C14 The plan cache holds one entry per identity looked up, for good.
\* ------------------------------------------------------------------------

\* the identity of the trigger that fired
FiredIdent == Ident(td.tgname, td.relid)

\* the identities the cache holds
CachedIdents == {FPlans[i].ident : i \in 1..nFPlans}

\* no two entries have the same identity, and nFPlans counts the entries
OneEntryPerIdent ==
    /\ nFPlans = Len(FPlans)
    /\ \A i, j \in 1..nFPlans : FPlans[i].ident = FPlans[j].ident => i = j
    /\ Cardinality(CachedIdents) = nFPlans

\* the step of a handler that looks up an identity the cache does not hold
LooksUpNewIdent ==
    /\ pc = "fired"
    /\ CalledIn(res', "find_plan")
    /\ FiredIdent \notin CachedIdents

\* C14: the cache never holds two entries of one identity; every step
\* leaves each entry in its place under its identity, and adds an entry,
\* that of the identity looked up, exactly when a handler looks up an
\* identity that has no entry yet; so the number of entries is the
\* number of distinct identities looked up so far
C14_OneEntryPerIdentity ==
    [][/\ OneEntryPerIdent
       /\ OneEntryPerIdent'
       /\ \A i \in 1..nFPlans :
              i <= nFPlans' /\ FPlans'[i].ident = FPlans[i].ident
       /\ IF LooksUpNewIdent
          THEN /\ nFPlans' = nFPlans + 1
               /\ FPlans'[nFPlans'].ident = FiredIdent
          ELSE nFPlans' = nFPlans]_vars

\* a second identity has been looked up and has got the second entry
C14_Witness ==
    /\ pc = "returned" /\ Called("find_plan")
    /\ nFPlans = 2
    /\ FPlans[2].ident = FiredIdent
    /\ FPlans[1].ident # FiredIdent

\* an identity has been looked up a second time and still has one entry
C14_SecondLookup ==
    /\ pc = "returned" /\ Called("find_plan") /\ ~Called("SPI_prepare")
    /\ Called("SPI_execp")
    /\ nFPlans = 1

\* ------------------------------------------------------------------------
\* C15 The statement field of a cache entry is set once and for all.
\* ------------------------------------------------------------------------

\* the values the statement field of the fired trigger's entry has held
\* during the call: unset when the call first assigns it, then each value
\* assigned
FieldHistory == <<NoPlan>> \o res.writes

\* C15 as stated: the only change the field ever makes is from unset to a
\* statement; it is never reset to unset and never replaced by another
\* statement, persistence failing after preparation included
C15_StatementChangesOnce ==
    Ran => \A i \in 1..(Len(FieldHistory) - 1) :
               FieldHistory[i] # FieldHistory[i + 1] => FieldHistory[i] = NoPlan

\* the statement field of entry i before the step: unset for an entry the
\* step creates
PlanBefore(i) == IF i <= nFPlans THEN FPlans[i].plan ELSE NoPlan

\* C15 amended: from one call to the next, a field that is set keeps its
\* statement, and a field becomes set only in the call of its own trigger
\* that prepared and persisted the statement, which it then holds
\* persisted; within that call the field is assigned twice, the prepared
\* statement and then its persisted copy, and if persistence fails it is
\* assigned the prepared statement and then unset again
C15_StatementSetOnceBetweenCalls ==
    [][\A i \in 1..nFPlans' :
          /\ PlanBefore(i) # NoPlan => FPlans'[i].plan = PlanBefore(i)
          /\ (PlanBefore(i) = NoPlan /\ FPlans'[i].plan # NoPlan)
                => /\ pc = "fired"
                   /\ FPlans'[i].ident = FiredIdent
                   /\ FPlans'[i].plan.saved
                   /\ Len(res'.writes) = 2
                   /\ res'.writes[1] = [FPlans'[i].plan EXCEPT !.saved = FALSE]
                   /\ res'.writes[2] = FPlans'[i].plan
          /\ (pc = "fired" /\ FPlans'[i].ident = FiredIdent
                /\ CalledIn(res', "SPI_saveplan") /\ res'.error = "PlanningError")
                => /\ FPlans'[i].plan = NoPlan
                   /\ Len(res'.writes) = 2
                   /\ res'.writes[1].kind = "plan"
                   /\ res'.writes[2] = NoPlan]_vars

\* a call has prepared and persisted its statement and the entry holds it
C15_Witness ==
    /\ pc = "returned" /\ Called("SPI_saveplan")
    /\ Len(res.writes) = 2
    /\ \E i \in 1..nFPlans :
           /\ FPlans[i].ident = FiredIdent
           /\ FPlans[i].plan = res.writes[2]
           /\ FPlans[i].plan.saved

\* persistence has failed after preparation succeeded
C15_PersistenceFailed ==
    /\ pc = "returned" /\ Called("SPI_saveplan")
    /\ res.error = "PlanningError"
    /\ res.writes[2] = NoPlan

\* ------------------------------------------------------------------------
\* C16 The session a call has opened is released before the call ends.
\* ------------------------------------------------------------------------

\* the call has connected its session: SPI_connect was called and did not
\* fail
Connected == Called("SPI_connect") /\ res.error # "ConnectionError"

\* SPI_finish was called after SPI_connect
FinishedAfterConnect ==
    \E i, j \in DOMAIN res.calls :
        i < j /\ res.calls[i] = "SPI_connect" /\ res.calls[j] = "SPI_finish"

\* C16 as stated: every call that has connected a session has released it
\* when it ends, whether it returns or raises a fatal error
C16_SessionReleasedOnEveryExit ==
    (Ran /\ Connected) => FinishedAfterConnect

\* the number of calls of a primitive in the call
CountCalls(name) == Cardinality({i \in DOMAIN res.calls : res.calls[i] = name})

\* C16 amended: a call that has connected a session and returns, after
\* the execution or on a null key, has released the session as the last
\* thing it did, once; a call that raises a fatal error after connecting
\* ends without having released it
C16_SessionReleasedOnReturn ==
    (Ran /\ Connected)
        => IF res.error = "none"
           THEN /\ res.calls[Len(res.calls)] = "SPI_finish"
                /\ CountCalls("SPI_finish") = 1
                /\ CountCalls("SPI_connect") = 1
           ELSE /\ ~Called("SPI_finish")
                /\ res.executed = <<>>
                /\ res.error \in {"AttributeError", "PlanningError",
                                  "ExecutionError", "UndefinedColumn"}

\* a call has failed in SPI_execp with its session still connected
C16_Witness ==
    /\ pc = "returned" /\ Connected
    /\ res.error = "ExecutionError"
    /\ Called("SPI_execp")
    /\ ~Called("SPI_finish")

\* the other exits after the connection
C16_UnknownKeyColumn ==
    pc = "returned" /\ Connected /\ res.error = "AttributeError"

C16_PreparationFailed ==
    /\ pc = "returned" /\ Connected /\ res.error = "PlanningError"
    /\ ~Called("SPI_saveplan")

C16_NormalReturn ==
    pc = "returned" /\ Connected /\ res.error = "none" /\ Called("SPI_execp")

\* ------------------------------------------------------------------------
\* C17 The stages run in order, and a skipped call touches neither the
\*     plan cache nor the destination table.
\* ------------------------------------------------------------------------

\* a pair whose column is not null in the triggering row and renders
\* differently from its value: the guard fails on it
GuardMismatch ==
    \E j \in PairIndexes(variant, td.args) :
        /\ ~ColumnValue(td.tg_trigtuple, Arg(td.args, j)).isnull
        /\ SPI_getvalue(td.tg_trigtuple, SPI_fnumber(Arg(td.args, j))).str
               # Arg(td.args, j + 1)

\* a call the classifier or the guard skips: an unchanged update, or a
\* failing pair, in a well-formed call whose predicate columns exist
SkippedCall ==
    /\ WellFormed
    /\ AllPredicateColumnsKnown
    /\ Rewrite \/ GuardMismatch

\* the position of the first call of a primitive in an outcome, 0 if none
PosIn(r, name) ==
    IF CalledIn(r, name)
    THEN CHOOSE i \in DOMAIN r.calls :
             r.calls[i] = name /\ \A j \in 1..(i - 1) : r.calls[j] # name
    ELSE 0

\* if b is called, a has been called before it
Precedes(r, a, b) == CalledIn(r, b) => (0 < PosIn(r, a) /\ PosIn(r, a) < PosIn(r, b))

\* the entry of the fired trigger exists in the cache and is set
FiredEntrySet == Filled(FPlans, nFPlans)

\* C17: in every run of the handler, a failed validation ends the call
\* before the guard looks at any column; a call skipped by the classifier
\* or the guard returns without connecting, looking up or creating a cache
\* entry, preparing or executing, and leaves the plan cache and the
\* destination table as they were; the cache lookup comes before any
\* preparation, preparation before persistence, and all of them before
\* the execution; and the statement executed is the one the entry holds,
\* prepared and persisted earlier in the same call if the entry was unset
C17_StagesInOrder ==
    [][pc = "fired" =>
          /\ ValidateCall(variant, td) # "none"
                => res'.lookups = <<>> /\ res'.calls = <<"elog">>
          /\ SkippedCall
                => /\ res'.error = "none"
                   /\ \A n \in {"SPI_connect", "find_plan", "SPI_prepare",
                                "SPI_saveplan", "SPI_execp"} : ~CalledIn(res', n)
                   /\ res'.executed = <<>>
                   /\ UNCHANGED <<FPlans, nFPlans, topic>>
          /\ Precedes(res', "SPI_connect", "find_plan")
          /\ Precedes(res', "find_plan", "SPI_prepare")
          /\ Precedes(res', "SPI_prepare", "SPI_saveplan")
          /\ Precedes(res', "find_plan", "SPI_execp")
          /\ CalledIn(res', "SPI_execp")
                => /\ FiredEntrySet'
                   /\ FiredEntrySet \/ Precedes(res', "SPI_saveplan", "SPI_execp")
                   /\ ~FiredEntrySet => CalledIn(res', "SPI_saveplan")
                   /\ \A k \in DOMAIN res'.executed :
                          \E i \in 1..nFPlans' :
                              /\ FPlans'[i].ident = FiredIdent
                              /\ FPlans'[i].plan.sql = res'.executed[k].sql]_vars

\* a changed row was skipped by the guard while the cache held an entry
C17_Witness ==
    /\ pc = "returned" /\ SkippedCall /\ ~Rewrite /\ GuardMismatch
    /\ td.event = "update"
    /\ res.calls = <<"SPI_finish">>
    /\ nFPlans > 0
    /\ FPlans = res.eplan

\* ------------------------------------------------------------------------
\* C18 SPI_finish is called only to close a session the call has opened.
\* ------------------------------------------------------------------------

\* C18: in every call, SPI_finish is called only after a successful
\* SPI_connect of the same call and at most once for it; a call that
\* returns before connecting, on an unchanged update or a failing guard,
\* calls no SPI_finish
C18_FinishOnlyAfterConnect ==
    Ran => /\ Called("SPI_finish") => (Connected /\ FinishedAfterConnect)
           /\ CountCalls("SPI_finish") <= CountCalls("SPI_connect")
           /\ ~Called("SPI_connect") => ~Called("SPI_finish")

\* ------------------------------------------------------------------------
\* C19 A call that stops between the cache lookup and the persistence of
\*     the statement leaves the entry unset.
\* ------------------------------------------------------------------------

\* the outcome of a call that looked its entry up and stopped before a
\* statement was persisted: on a null key, an unknown key column, a failed
\* preparation or a failed persistence
StoppedBeforePersisted(r) ==
    /\ CalledIn(r, "find_plan")
    /\ ~CalledIn(r, "SPI_execp")
    /\ \/ r.error = "none"
       \/ r.error = "AttributeError"
       \/ r.error = "PlanningError"

\* the entry of the fired trigger exists and its statement is unset
FiredEntryUnset ==
    \E i \in 1..nFPlans :
        FPlans[i].ident = FiredIdent /\ FPlans[i].plan = NoPlan

\* C19: a run of the handler that stops after the cache lookup and before
\* the statement is persisted executes nothing and leaves the entry of its
\* identity in the cache with the statement unset, and no entry ever holds
\* a statement that is prepared but not persisted; and a run that finds
\* the entry of its identity unset and goes on to execute prepares and
\* persists the statement first
C19_StoppedCallLeavesEntryUnset ==
    [][pc = "fired" =>
          /\ StoppedBeforePersisted(res')
                => /\ res'.executed = <<>>
                   /\ topic' = topic
                   /\ FiredEntryUnset'
          /\ \A i \in 1..nFPlans' :
                 FPlans'[i].plan # NoPlan => FPlans'[i].plan.saved
          /\ (FiredEntryUnset /\ CalledIn(res', "SPI_execp"))
                => /\ Precedes(res', "SPI_prepare", "SPI_saveplan")
                   /\ Precedes(res', "SPI_saveplan", "SPI_execp")
                   /\ Len(res'.writes) = 2
                   /\ res'.writes[1] =
                          Plan(Sql(variant, td.args), res'.writes[1].argtype, FALSE)]_vars

\* persistence has failed after a successful preparation and the entry is
\* in the cache, unset
C19_Witness ==
    /\ pc = "returned" /\ StoppedBeforePersisted(res)
    /\ res.error = "PlanningError"
    /\ Called("SPI_saveplan")
    /\ res.writes[1].kind = "plan"
    /\ FiredEntryUnset

\* the other ways of stopping
C19_NullKeyOnMiss ==
    pc = "returned" /\ StoppedBeforePersisted(res) /\ res.error = "none"

C19_UnknownKeyColumn ==
    pc = "returned" /\ StoppedBeforePersisted(res) /\ res.error = "AttributeError"

C19_PreparationFailed ==
    /\ pc = "returned" /\ StoppedBeforePersisted(res)
    /\ res.error = "PlanningError" /\ ~Called("SPI_saveplan")

\* the negation of the case of C19's last clause: it is violated, a call
\* does find the entry of its identity unset and go on to execute
C19_NeverPreparesAgain ==
    [][~(pc = "fired" /\ FiredEntryUnset /\ CalledIn(res', "SPI_execp"))]_vars

====
